---- MODULE Spec2Model ----
(***************************************************************************)
(* The system font iterator of native/android/system_fonts.cpp:            *)
(* ASystemFontIterator_open / _next / _close walking the family / font     *)
(* tree of /system/etc/fonts.xml, and the ASystemFont records it returns.  *)
(***************************************************************************)
EXTENDS Integers, Sequences, FiniteSets, TLC

\* ------------------------------------------------------------------ bounds
\* Largest number of nodes below the root element in a document of Spec.
MaxNodes == 5
\* Largest number of nodes below the root element in a document of PairSpec.
PairMaxNodes == 3
\* Largest number of nodes below the root element in a document of ApiSpec.
ApiMaxNodes == 3
\* The count of nullptr results of next per iterator stops at this number.
MaxNulls == 2

\* ---------------------------------------------------------------- pointers
\* nullptr, for node pointers, document pointers and handles alike.
NULL == 0
\* The two iterator objects a client program may open (handles 1 and 2).
Iters == {1, 2}
\* The null ASystemFont handle; a valid one is <<iterator, ordinal>>.
NullFont == <<NULL, NULL>>
\* The null xmlNode pointer; a valid one names its document and the node.
NullNode == [doc |-> NULL, n |-> NULL]
Ptr(d, n) == IF n = NULL THEN NullNode ELSE [doc |-> d, n |-> n]

VARIABLES
    xml,        \* what xmlReadFile makes of /system/etc/fonts.xml
    clients,    \* the iterator handles the client program uses
    ite,        \* ite[i]: the ASystemFontIterator object behind handle i
    docs,       \* docs[d]: the xmlDoc object d on the heap
    fonts,      \* fonts[i]: the ASystemFont objects returned through handle i
    skipped,    \* skipped[i]: the font nodes iterator i passed over
    closed,     \* the ASystemFont handles already deleted
    frame,      \* the running ASystemFontIterator_next call, if any
    call,       \* the last API call made: its name, its handle, its result
    nulls,      \* nulls[i]: how often next has returned nullptr for iterator i
    proc,       \* "running", or "aborted" by LOG_ALWAYS_FATAL_IF, or "crashed"
    touched     \* the xmlDoc objects the last step read

vars == <<xml, clients, ite, docs, fonts, skipped, closed, frame, call, nulls,
          proc, touched>>

\* ------------------------------------------------------------ the document
\* A parsed document is its elements in document order (pre-order), each with
\* its depth below the document: the root element (depth 0) comes first, the
\* root's children have depth 1, their children depth 2.  A node pointer is
\* an index into this sequence.
FAMILY_TAG == "family"
FONT_TAG == "font"

\* The text of a font node whose file /system/fonts/a exists as a regular
\* file, of one whose file /system/fonts/b does not exist, and of one with
\* only white space, whose path is the directory /system/fonts/ itself.
TextA == <<" ", "a", "\n">>
TextB == <<"b">>
TextBlank == <<"\n", " ">>

\* A node: its depth, its element name, its attributes (a set of
\* <<name, value>> pairs) and its text content.  Attribute values and text
\* are sequences of characters.
Node(d, n, t) == [depth |-> d, name |-> n, attrs |-> {}, text |-> t]

RootNode == Node(0, "familyset", <<>>)
NodeKinds ==
    { Node(1, FAMILY_TAG, <<>>),
      Node(1, "alias", <<>>),
      Node(2, FONT_TAG, TextA),
      Node(2, FONT_TAG, TextB),
      Node(2, FONT_TAG, TextBlank),
      Node(2, "text", <<>>) }

\* The node sequences that are trees: the root element first and alone at
\* depth 0, and every other node at most one level below the node before it.
WellFormed(t) ==
    /\ t[1] = RootNode
    /\ \A k \in 2..Len(t) : t[k].depth >= 1 /\ t[k].depth <= t[k - 1].depth + 1

TreesUpTo(n) ==
    { t \in UNION { [1..(m + 1) -> NodeKinds \cup {RootNode}] : m \in 0..n } :
        WellFormed(t) }

\* xmlReadFile: NULL for an unreadable or unparsable file, else a document,
\* here one without a root element or one that is a tree.
ParseResults(n) ==
    { [ok |-> FALSE, nodes |-> <<>>], [ok |-> TRUE, nodes |-> <<>>] }
    \cup { [ok |-> TRUE, nodes |-> t] : t \in TreesUpTo(n) }

Nodes == xml.nodes

\* xmlNode::name, xmlNode::children, xmlNode::next, xmlNode::parent
name(n) == Nodes[n].name

RECURSIVE SkipDeeper(_, _)
SkipDeeper(j, d) ==
    IF j > Len(Nodes) \/ Nodes[j].depth <= d THEN j ELSE SkipDeeper(j + 1, d)

children(n) ==
    IF n + 1 <= Len(Nodes) /\ Nodes[n + 1].depth = Nodes[n].depth + 1
    THEN n + 1 ELSE NULL

next(n) ==
    LET j == SkipDeeper(n + 1, Nodes[n].depth)
    IN  IF j <= Len(Nodes) /\ Nodes[j].depth = Nodes[n].depth THEN j ELSE NULL

RECURSIVE Ancestor(_, _)
Ancestor(j, d) ==
    IF j = 0 THEN NULL ELSE IF Nodes[j].depth < d THEN j ELSE Ancestor(j - 1, d)

parent(n) == Ancestor(n - 1, Nodes[n].depth)

xmlDocGetRootElement(doc) == IF Len(Nodes) = 0 THEN NULL ELSE 1

\* xmlStrEqual on two strings: the same bytes.
xmlStrEqual(a, b) == a = b

\* The loop of firstElement and of nextSibling: the first node from `node`
\* along the sibling chain whose name is `tag`.
RECURSIVE ScanSiblings(_, _)
ScanSiblings(node, tag) ==
    IF node = NULL THEN NULL
    ELSE IF xmlStrEqual(name(node), tag) THEN node
    ELSE ScanSiblings(next(node), tag)

FirstChild(node, tag) == children(node)
firstElement(node, tag) == ScanSiblings(children(node), tag)

nextSibling(node, tag) == ScanSiblings(next(node), tag)

\* ----------------------------------------------------------------- strings
\* A null char pointer, as xmlGetProp returns for an absent attribute.
NullStr == <<"nullptr">>

xmlGetProp(node, attr) ==
    IF node # NULL /\ \E p \in Nodes[node].attrs : p[1] = attr
    THEN (CHOOSE p \in Nodes[node].attrs : p[1] = attr)[2]
    ELSE NullStr

\* xmlNodeListGetString of the node's children: the node's text content.
xmlNodeListGetString(node) == Nodes[node].text

XML_SPACES == {" ", "\r", "\n", "\t"}

\* xmlTrim that leaves the end of the string as it is.
xmlTrimStart(in) ==
    IF in = <<>> THEN in
    ELSE IF \A k \in 1..Len(in) : in[k] \in XML_SPACES THEN <<>>
    ELSE SubSeq(in, CHOOSE k \in 1..Len(in) :
                        /\ in[k] \notin XML_SPACES
                        /\ \A j \in 1..(k - 1) : in[j] \in XML_SPACES,
                Len(in))
xmlTrim(in) ==
    IF in = <<>> THEN in
    ELSE IF \A k \in 1..Len(in) : in[k] \in XML_SPACES THEN <<>>
    ELSE LET start == CHOOSE k \in 1..Len(in) :
                          /\ in[k] \notin XML_SPACES
                          /\ \A j \in 1..(k - 1) : in[j] \in XML_SPACES
             end == CHOOSE k \in 1..Len(in) :
                          /\ in[k] \notin XML_SPACES
                          /\ \A j \in (k + 1)..Len(in) : in[j] \in XML_SPACES
         IN  SubSeq(in, start, end)

\* The directory prefix of every font path, one token.
FontDir == <<"/system/fonts/">>

\* ------------------------------------------------------------- file system
\* stat(2) on the device: the regular files and the directories that exist.
RegularFiles == { FontDir \o <<"a">> }
Directories == { FontDir }

StatSucceeds(filePath) == filePath \in RegularFiles \cup Directories
isFontFileAvailable(filePath) ==
    IF filePath \notin RegularFiles \cup Directories THEN FALSE
    ELSE filePath \in RegularFiles

\* ------------------------------------------------------------------ strtol
IsSpace == {" ", "\t", "\n", "\r", "\f"}
Digits == <<"0", "1", "2", "3", "4", "5", "6", "7", "8", "9">>
IsDigit(c) == \E k \in 1..Len(Digits) : Digits[k] = c
DigitOf(c) == (CHOOSE k \in 1..Len(Digits) : Digits[k] = c) - 1

RECURSIVE SkipSpaces(_, _)
SkipSpaces(s, k) ==
    IF k <= Len(s) /\ s[k] \in IsSpace THEN SkipSpaces(s, k + 1) ELSE k

RECURSIVE ParseDigits(_, _, _)
ParseDigits(s, k, acc) ==
    IF k <= Len(s) /\ IsDigit(s[k])
    THEN ParseDigits(s, k + 1, acc * Len(Digits) + DigitOf(s[k]))
    ELSE acc

\* strtol(s, nullptr, 10): leading white space, an optional sign, then the
\* longest run of digits; 0 when there is none.
strtol(s) ==
    LET k == SkipSpaces(s, 1)
        signed == k <= Len(s) /\ s[k] \in {"+", "-"}
        v == ParseDigits(s, IF signed THEN k + 1 ELSE k, 0)
    IN  IF signed /\ s[k] = "-" THEN 0 - v ELSE v

\* ------------------------------------------------------------------ strtod
RECURSIVE CountDigits(_, _)
CountDigits(s, k) ==
    IF k <= Len(s) /\ IsDigit(s[k]) THEN 1 + CountDigits(s, k + 1) ELSE 0

RECURSIVE Normalized(_)
Normalized(v) ==
    IF v.num = 0 THEN [num |-> 0, exp |-> 0]
    ELSE IF v.num % Len(Digits) = 0
    THEN Normalized([num |-> v.num \div Len(Digits), exp |-> v.exp + 1])
    ELSE v

\* strtod(s, nullptr) on decimal input: white space, an optional sign, digits
\* with an optional fraction, an optional exponent.  The value is
\* num * 10^exp; 0 when no number starts the string.
strtod(s) ==
    LET k == SkipSpaces(s, 1)
        signed == k <= Len(s) /\ s[k] \in {"+", "-"}
        i0 == IF signed THEN k + 1 ELSE k
        ni == CountDigits(s, i0)
        dot == i0 + ni <= Len(s) /\ s[i0 + ni] = "."
        f0 == i0 + ni + 1
        nf == IF dot THEN CountDigits(s, f0) ELSE 0
        int == ParseDigits(s, i0, 0)
        mant == IF dot THEN ParseDigits(s, f0, int) ELSE int
        e0 == IF dot THEN f0 + nf ELSE i0 + ni
        hasE == e0 <= Len(s) /\ s[e0] \in {"e", "E"}
        esigned == hasE /\ e0 + 1 <= Len(s) /\ s[e0 + 1] \in {"+", "-"}
        x0 == IF esigned THEN e0 + 2 ELSE e0 + 1
        nx == IF hasE THEN CountDigits(s, x0) ELSE 0
        ex == IF nx = 0 THEN 0
              ELSE IF esigned /\ s[e0 + 1] = "-" THEN 0 - ParseDigits(s, x0, 0)
              ELSE ParseDigits(s, x0, 0)
    IN  IF ni + nf = 0 THEN [num |-> 0, exp |-> 0]
        ELSE Normalized([num |-> IF signed /\ s[k] = "-" THEN 0 - mant ELSE mant,
                         exp |-> ex - nf])

\* ------------------------------------------------------------ the axis tag
\* The byte of a character (ASCII), for the characters of the model; "0xC3"
\* and "0xA9" stand for the two bytes of a UTF-8 encoded letter.
Ascii ==
    <<<<"0", 48>>, <<"1", 49>>, <<"2", 50>>, <<"3", 51>>, <<"4", 52>>,
      <<"5", 53>>, <<"6", 54>>, <<"7", 55>>, <<"8", 56>>, <<"9", 57>>,
      <<" ", 32>>, <<"a", 97>>, <<"b", 98>>, <<"d", 100>>, <<"g", 103>>,
      <<"h", 104>>, <<"i", 105>>, <<"l", 108>>, <<"t", 116>>, <<"w", 119>>,
      <<"0xC3", 195>>, <<"0xA9", 169>>>>
Byte(c) == Ascii[CHOOSE k \in 1..Len(Ascii) : Ascii[k][1] = c][2]

\* A uint32_t is kept as its two 16-bit halves.
ToUint32(v) == [hi |-> (v \div (2 ^ 16)) % (2 ^ 16), lo |-> v % (2 ^ 16)]

\* Lines 138-142: the four bytes of the tag, each shifted to its place and
\* or-ed into a uint32_t, the first byte highest.
PackTagLowFirst(tagStr) ==
    [hi |-> (Byte(tagStr[4]) * 2 ^ 8 + Byte(tagStr[3])) % (2 ^ 16),
     lo |-> (Byte(tagStr[2]) * 2 ^ 8 + Byte(tagStr[1])) % (2 ^ 16)]
PackTag(tagStr) ==
    [hi |-> (Byte(tagStr[1]) * 2 ^ 8 + Byte(tagStr[2])) % (2 ^ 16),
     lo |-> (Byte(tagStr[3]) * 2 ^ 8 + Byte(tagStr[4])) % (2 ^ 16)]

\* The loop of lines 126-145 from an axis node on: the (tag, value) pairs of
\* the axis elements that have a tag of 4 characters and a stylevalue.
RECURSIVE AxesFrom(_)
AxesFrom(axis) ==
    IF axis = NULL THEN <<>>
    ELSE LET tagStr == xmlGetProp(axis, "tag")
             styleValueStr == xmlGetProp(axis, "stylevalue")
             rest == AxesFrom(nextSibling(axis, "axis"))
         IN  IF tagStr = NullStr \/ Len(tagStr) # 4 THEN rest
             ELSE IF styleValueStr = NullStr THEN rest
             ELSE <<<<PackTag(tagStr), strtod(styleValueStr)>>>> \o rest

\* ---------------------------------------------------------------- copyFont
\* xmlDoc::parent of a document node.
DocParent(doc) == NULL

\* The value with a capital.
ItalicCapitalized == <<"I", "t", "a", "l", "i", "c">>
ITALIC_ATTR_VALUE == <<"i", "t", "a", "l", "i", "c">>

\* The ASystemFont that copyFont fills from the iterator's current node.
copyFont(node, doc) ==
    LET weightStr == xmlGetProp(node, "weight")
        styleStr == xmlGetProp(node, "style")
        indexStr == xmlGetProp(node, "index")
        localeStr == xmlGetProp(DocParent(doc), "lang")
    IN  [ mFilePath |-> FontDir \o xmlTrim(xmlNodeListGetString(node)),
          mWeight |-> IF weightStr # NullStr
                      THEN strtol(weightStr) % (2 ^ 16) ELSE 400,
          mItalic |-> IF styleStr # NullStr
                      THEN xmlStrEqual(styleStr, ITALIC_ATTR_VALUE) ELSE FALSE,
          mCollectionIndex |-> IF indexStr # NullStr
                               THEN ToUint32(strtol(indexStr)) ELSE ToUint32(0),
          mLocale |-> localeStr,
          mAxes |-> AxesFrom(firstElement(node, "axis")) ]

\* ------------------------------------------------------- findFirstFontNode
\* The loop of findFirstFontNode from a family on: the first font child of
\* the first family, from this one on, that has a font child.
FirstFontOfFamily(family) == firstElement(family, FONT_TAG)
RECURSIVE FirstFontFrom(_)
FirstFontFrom(family) ==
    LET font == firstElement(family, FONT_TAG)
    IN  IF font # NULL THEN font
        ELSE LET nextFamily == nextSibling(family, FAMILY_TAG)
             IN  IF nextFamily = NULL THEN NULL ELSE FirstFontFrom(nextFamily)

findFirstFontNode(doc) ==
    LET familySet == xmlDocGetRootElement(doc)
    IN  IF familySet = NULL THEN NULL
        ELSE LET family == firstElement(familySet, FAMILY_TAG)
             IN  IF family = NULL THEN NULL ELSE FirstFontFrom(family)

\* ------------------------------------------------------------------- state
IdleFrame == [pc |-> "idle", ite |-> NULL, nextNode |-> NullNode]

InitWith(docsToRead, handles) ==
    /\ xml \in docsToRead
    /\ clients = handles
    /\ ite = [i \in Iters |->
                [st |-> "unopened", mXmlDoc |-> NULL, mFontNode |-> NullNode]]
    /\ docs = [d \in Iters |-> [st |-> "none", frees |-> 0]]
    /\ fonts = [i \in Iters |-> <<>>]
    /\ skipped = [i \in Iters |-> {}]
    /\ closed = {}
    /\ frame = IdleFrame
    /\ call = [op |-> "none", arg |-> NULL, val |-> NULL]
    /\ nulls = [i \in Iters |-> 0]
    /\ proc = "running"
    /\ touched = {}

\* One client with one iterator.
Init == InitWith(ParseResults(MaxNodes), {1})
\* One client with two iterators over the same file.
InitPair == InitWith(ParseResults(PairMaxNodes), Iters)
\* A family as fonts.xml writes one: a language, a font with its attributes
\* and axes, and a font without any.
SampleTree ==
    << RootNode,
       [depth |-> 1, name |-> FAMILY_TAG, text |-> <<>>,
        attrs |-> {<<"lang", <<"e", "n">>>>}],
       [depth |-> 2, name |-> FONT_TAG, text |-> TextA,
        attrs |-> {<<"weight", <<"7", "0", "0">>>>,
                   <<"style", <<"i", "t", "a", "l", "i", "c">>>>,
                   <<"index", <<"1">>>>}],
       [depth |-> 3, name |-> "axis", text |-> <<>>,
        attrs |-> {<<"tag", <<"w", "g", "h", "t">>>>,
                   <<"stylevalue", <<"1", ".", "5">>>>}],
       [depth |-> 3, name |-> "axis", text |-> <<>>,
        attrs |-> {<<"tag", <<"w", "d", "t">>>>,
                   <<"stylevalue", <<"1", "0", "0">>>>}],
       Node(2, FONT_TAG, TextA) >>

\* One client with one iterator, which also reads and closes the records.
InitApi ==
    InitWith(ParseResults(ApiMaxNodes) \cup {[ok |-> TRUE, nodes |-> SampleTree]},
             {1})

\* ------------------------------------------------- documents of one font
\* The attribute `attr` with value v, or no attribute for NullStr.
Attr(attr, v) == IF v = NullStr THEN {} ELSE {<<attr, v>>}

WeightValues == { NullStr, <<"7", "0", "0">>, <<"4", "0">>, <<"a", "b">> }
StyleValues ==
    { NullStr, <<"i", "t", "a", "l", "i", "c">>,
      <<"I", "t", "a", "l", "i", "c">>, <<"i", "t", "a", "l">> }
LangValues == { NullStr, <<"e", "n">> }
FontTexts ==
    { <<>>, TextA, TextBlank, <<"\t", "a", " ", "b", "\r">>, <<"a", "\f">> }

\* The axis elements: tags of 4, 3 and 5 characters, of 4 bytes above 127
\* and below, and none; style values with a fraction, without digits, none.
AxisKinds ==
    { [depth |-> 3, name |-> "axis", text |-> <<>>,
       attrs |-> Attr("tag", t) \cup Attr("stylevalue", v)] :
        <<t, v>> \in
          { <<<<"w", "g", "h", "t">>, <<"1", ".", "5">>>>,
            <<<<"w", "d", "t">>, <<"1", ".", "5">>>>,
            <<<<"w", "g", "h", "t", "i">>, <<"1", ".", "5">>>>,
            <<NullStr, <<"1", ".", "5">>>>,
            <<<<"w", "g", "h", "t">>, NullStr>>,
            <<<<"i", "t", "a", "l">>, <<"a", "b">>>>,
            <<<<"0xC3", "0xA9", "a", "b">>, <<"1", "0", "0">>>> } }

\* Largest number of axis children of the font in a document of FieldSpec.
MaxAxes == 2

\* A font element with its attributes and text.
FontNode(weight, style, text) ==
    [depth |-> 2, name |-> FONT_TAG, text |-> text,
     attrs |-> Attr("weight", weight) \cup Attr("style", style)]

\* The font elements with their axis children: each weight with each style,
\* each text, and each sequence of axis children.
FontTrees ==
    { <<FontNode(w, s, TextA)>> : w \in WeightValues, s \in StyleValues }
    \cup { <<FontNode(NullStr, NullStr, t)>> : t \in FontTexts }
    \cup { <<FontNode(NullStr, NullStr, TextA)>> \o ax :
              ax \in UNION { [1..m -> AxisKinds] : m \in 1..MaxAxes } }

\* One client with one iterator over a document of one family, with or
\* without a language, that holds one font.
InitField ==
    InitWith({ [ok |-> TRUE,
                nodes |-> << RootNode,
                             [depth |-> 1, name |-> FAMILY_TAG, text |-> <<>>,
                              attrs |-> Attr("lang", l)] >> \o f] :
                  l \in LangValues, f \in FontTrees },
             {1})

\* The handles the client may pass: nullptr or an object it has not closed.
IterHandles == {NULL} \cup {i \in clients : ite[i].st = "open"}
FontHandles ==
    {NullFont}
    \cup {h \in UNION {{<<i, k>> : k \in 1..Len(fonts[i])} : i \in Iters} :
             h \notin closed}

CanCall == proc = "running" /\ frame.pc = "idle"

\* ----------------------------------------------------------- xmlDoc objects
\* One xmlDoc for all iterators.
SharedDocument(i) == IF xml.ok THEN 1 ELSE NULL
\* xmlReadFile for iterator i: a new xmlDoc, or NULL when the file does not
\* parse.
xmlReadFile(i) == IF xml.ok THEN i ELSE NULL

\* XmlDocDeleter through unique_ptr: xmlFreeDoc on a pointer that is not null.
xmlFreeDoc(ds, d) ==
    IF d = NULL THEN ds
    ELSE [ds EXCEPT ![d] = [st |-> "freed", frees |-> @.frees + 1]]

\* ite->mXmlDoc.reset(): the iterator once its document is freed.
ReleasedKeepsPointer(it) == it
Released(it) == [it EXCEPT !.mXmlDoc = NULL]

\* ite->mFontNode = nextNode (line 215)
AdvancedIfFound(it, nextNode) ==
    IF nextNode = NullNode THEN it ELSE [it EXCEPT !.mFontNode = nextNode]
Advanced(it, nextNode) == [it EXCEPT !.mFontNode = nextNode]

\* --------------------------------------------------- ASystemFontIterator_open
ASystemFontIterator_open(i) ==
    /\ CanCall
    /\ i \in clients
    /\ ite[i].st = "unopened"
    /\ LET d == xmlReadFile(i)
       IN  /\ ite' = [ite EXCEPT ![i] =
                        [st |-> "open", mXmlDoc |-> d, mFontNode |-> NullNode]]
           /\ docs' = IF d = NULL THEN docs
                      ELSE [docs EXCEPT ![d].st = "live"]
    /\ call' = [op |-> "ASystemFontIterator_open", arg |-> NULL, val |-> i]
    /\ touched' = {}
    /\ UNCHANGED <<xml, clients, fonts, skipped, closed, frame, nulls, proc>>

\* -------------------------------------------------- ASystemFontIterator_close
\* delete ite: nothing for nullptr, else the iterator's destructor.
ASystemFontIterator_close(h) ==
    /\ CanCall
    /\ h \in IterHandles
    /\ IF h = NULL
       THEN UNCHANGED <<ite, docs>>
       ELSE /\ docs' = xmlFreeDoc(docs, ite[h].mXmlDoc)
            /\ ite' = [ite EXCEPT ![h] =
                         [st |-> "closed", mXmlDoc |-> NULL, mFontNode |-> NullNode]]
    /\ call' = [op |-> "ASystemFontIterator_close", arg |-> h, val |-> NULL]
    /\ touched' = {}
    /\ UNCHANGED <<xml, clients, fonts, skipped, closed, frame, nulls, proc>>

\* --------------------------------------------------- ASystemFontIterator_next
\* return of ASystemFontIterator_next, to the client
Return(i, h) ==
    /\ call' = [op |-> "ASystemFontIterator_next", arg |-> i, val |-> h]
    /\ nulls' = IF h = NullFont
                THEN [nulls EXCEPT ![i] = IF @ < MaxNulls THEN @ + 1 ELSE @]
                ELSE nulls
    /\ frame' = IdleFrame

\* return font.release(): the record becomes the client's, under a new handle
ReturnFont(i, node, font) ==
    /\ fonts' = [fonts EXCEPT ![i] = Append(@, [node |-> node, font |-> font])]
    /\ Return(i, <<i, Len(fonts[i]) + 1>>)

\* The search begun again at the first font of the cursor's family.
LoopEntryAtFirst(i, node) ==
    [pc |-> "loop", ite |-> i,
     nextNode |-> Ptr(node.doc, firstElement(parent(node.n), FONT_TAG))]

\* Line 207, on entry with the cursor at `node`: the frame at the loop head.
LoopEntry(i, node) ==
    [pc |-> "loop", ite |-> i,
     nextNode |-> Ptr(node.doc, nextSibling(node.n, FONT_TAG))]

\* Lines 192-207 for an iterator that is not null.
EnterNext(i) ==
    LET it == ite[i]
    IN  IF it.mFontNode = NullNode
        THEN IF it.mXmlDoc = NULL
             THEN \* Already at the end.
                  /\ Return(i, NullFont)
                  /\ touched' = {}
                  /\ UNCHANGED <<ite, docs, fonts>>
             ELSE \* First time to query font.
                  LET n == findFirstFontNode(it.mXmlDoc)
                  IN  /\ touched' = {it.mXmlDoc}
                      /\ IF n = NULL
                         THEN /\ docs' = xmlFreeDoc(docs, it.mXmlDoc)
                              /\ ite' = [ite EXCEPT ![i] = Released(it)]
                              /\ Return(i, NullFont)
                              /\ UNCHANGED fonts
                         ELSE /\ ite' = [ite EXCEPT ![i].mFontNode =
                                                     Ptr(it.mXmlDoc, n)]
                              /\ ReturnFont(i, n, copyFont(n, it.mXmlDoc))
                              /\ UNCHANGED docs
        ELSE /\ frame' = LoopEntry(i, it.mFontNode)
             /\ touched' = {it.mFontNode.doc}
             /\ UNCHANGED <<ite, docs, fonts, call, nulls>>

\* next without the check of line 191, nullptr answered with nullptr.
NextWithoutFatal(h) ==
    /\ CanCall
    /\ h \in IterHandles
    /\ IF h = NULL
       THEN /\ call' = [op |-> "ASystemFontIterator_next", arg |-> h,
                        val |-> NullFont]
            /\ touched' = {}
            /\ UNCHANGED <<ite, docs, fonts, frame, nulls>>
       ELSE EnterNext(h)
    /\ UNCHANGED <<xml, clients, skipped, closed, proc>>

ASystemFontIterator_next(h) ==
    /\ CanCall
    /\ h \in IterHandles
    /\ IF h = NULL
       THEN \* LOG_ALWAYS_FATAL_IF(ite == nullptr, ...)
            /\ proc' = "aborted"
            /\ call' = [op |-> "ASystemFontIterator_next", arg |-> h,
                        val |-> NullFont]
            /\ touched' = {}
            /\ UNCHANGED <<ite, docs, fonts, frame, nulls>>
       ELSE /\ EnterNext(h)
            /\ UNCHANGED proc
    /\ UNCHANGED <<xml, clients, skipped, closed>>

\* One pass of the loop of lines 208-214, entered with nextNode == nullptr.
\* The pass reads only ite->mFontNode, which the loop never assigns: a pass
\* that leaves nextNode nullptr without breaking is followed by the same pass
\* again, for ever (pc "spin": the call never returns).
WhileNextNodeNull ==
    /\ proc = "running"
    /\ frame.pc = "loop"
    /\ frame.nextNode = NullNode
    /\ LET cur == ite[frame.ite].mFontNode
           family == nextSibling(parent(cur.n), FAMILY_TAG)
           nextNode == IF family = NULL THEN NullNode
                       ELSE Ptr(cur.doc, firstElement(family, FONT_TAG))
       IN  /\ frame' = [frame EXCEPT
                          !.pc = IF family = NULL THEN "after"
                                 ELSE IF nextNode = NullNode THEN "spin"
                                 ELSE "loop",
                          !.nextNode = nextNode]
           /\ touched' = {cur.doc}
    /\ UNCHANGED <<xml, clients, ite, docs, fonts, skipped, closed, call, nulls, proc>>

\* Lines 215-228, after the loop.
AfterLoop ==
    /\ proc = "running"
    /\ \/ frame.pc = "loop" /\ frame.nextNode # NullNode
       \/ frame.pc = "after"
    /\ LET i == frame.ite
           it == ite[i]
           nextNode == frame.nextNode
       IN  IF nextNode = NullNode
           THEN /\ docs' = xmlFreeDoc(docs, it.mXmlDoc)
                /\ ite' = [ite EXCEPT ![i] = Released(Advanced(it, nextNode))]
                /\ Return(i, NullFont)
                /\ touched' = {}
                /\ UNCHANGED <<fonts, skipped>>
           ELSE LET font == copyFont(nextNode.n, it.mXmlDoc)
                IN  /\ ite' = [ite EXCEPT ![i] = Advanced(it, nextNode)]
                    /\ touched' = {nextNode.doc, it.mXmlDoc}
                    /\ UNCHANGED docs
                    /\ IF ~isFontFileAvailable(font.mFilePath)
                       THEN \* Skip it: return ASystemFontIterator_next(ite)
                            /\ frame' = LoopEntry(i, nextNode)
                            /\ skipped' = [skipped EXCEPT ![i] = @ \cup {nextNode.n}]
                            /\ UNCHANGED <<fonts, call, nulls>>
                       ELSE /\ ReturnFont(i, nextNode.n, font)
                            /\ UNCHANGED skipped
    /\ UNCHANGED <<xml, clients, closed, proc>>

\* ------------------------------------------------------------ ASystemFont
\* delete font: nothing for nullptr.
ASystemFont_close(f) ==
    /\ CanCall
    /\ f \in FontHandles
    /\ closed' = IF f = NullFont THEN closed ELSE closed \cup {f}
    /\ call' = [op |-> "ASystemFont_close", arg |-> f, val |-> NULL]
    /\ touched' = {}
    /\ UNCHANGED <<xml, clients, ite, docs, fonts, skipped, frame, nulls, proc>>

\* A record that is a view of the xmlDoc: nothing is left of it once the
\* document is freed.
FontInDocument(f) ==
    IF docs[f[1]].st = "live" THEN fonts[f[1]][f[2]].font
    ELSE [ mFilePath |-> <<>>, mWeight |-> 0, mItalic |-> FALSE,
           mCollectionIndex |-> ToUint32(0), mLocale |-> NullStr,
           mAxes |-> <<>> ]
\* *font, for a handle that is not null.
Font(f) == fonts[f[1]][f[2]].font

\* The accessors that check the handle and read one field.
FieldAccessors ==
    { "ASystemFont_getFontFilePath", "ASystemFont_getWeight",
      "ASystemFont_isItalic", "ASystemFont_getCollectionIndex",
      "ASystemFont_getAxisCount" }

FieldOf(op, font) ==
    CASE op = "ASystemFont_getFontFilePath" -> font.mFilePath
      [] op = "ASystemFont_getWeight" -> font.mWeight
      [] op = "ASystemFont_isItalic" -> font.mItalic
      [] op = "ASystemFont_getCollectionIndex" -> font.mCollectionIndex
      [] op = "ASystemFont_getAxisCount" -> Len(font.mAxes)

ASystemFont_get(op, f) ==
    /\ CanCall
    /\ op \in FieldAccessors
    /\ f \in FontHandles
    /\ IF f = NullFont
       THEN \* LOG_ALWAYS_FATAL_IF(font == nullptr, ...)
            /\ proc' = "aborted"
            /\ call' = [op |-> op, arg |-> f, val |-> NULL]
       ELSE /\ call' = [op |-> op, arg |-> f, val |-> FieldOf(op, Font(f))]
            /\ UNCHANGED proc
    /\ touched' = {}
    /\ UNCHANGED <<xml, clients, ite, docs, fonts, skipped, closed, frame, nulls>>

\* ASystemFont_getAxisTag and ASystemFont_getAxisValue: the handle and the
\* index are checked, then one component of mAxes[axisIndex] is read.
AxisAccessors == { "ASystemFont_getAxisTag", "ASystemFont_getAxisValue" }

ASystemFont_getAxis(op, f, axisIndex) ==
    /\ CanCall
    /\ op \in AxisAccessors
    /\ f \in FontHandles
    /\ IF f = NullFont
       THEN /\ proc' = "aborted"
            /\ call' = [op |-> op, arg |-> f, val |-> NULL]
       ELSE IF axisIndex >= Len(Font(f).mAxes)
       THEN \* LOG_ALWAYS_FATAL_IF(axisIndex >= font->mAxes.size(), ...)
            /\ proc' = "aborted"
            /\ call' = [op |-> op, arg |-> f, val |-> NULL]
       ELSE /\ call' = [op |-> op, arg |-> f,
                       val |-> Font(f).mAxes[axisIndex + 1]
                                   [IF op = "ASystemFont_getAxisTag" THEN 1 ELSE 2]]
            /\ UNCHANGED proc
    /\ touched' = {}
    /\ UNCHANGED <<xml, clients, ite, docs, fonts, skipped, closed, frame, nulls>>

\* ASystemFont_getLocale: font->mLocale ? nullptr : font->mLocale->c_str().
\* With a locale the result is nullptr; without one the null mLocale is
\* dereferenced, which is undefined: the process crashes or the call returns
\* whatever is read there.
ASystemFont_getLocale(f) ==
    /\ CanCall
    /\ f \in FontHandles
    /\ IF f = NullFont
       THEN /\ proc' = "aborted"
            /\ call' = [op |-> "ASystemFont_getLocale", arg |-> f, val |-> NULL]
       ELSE IF Font(f).mLocale # NullStr
       THEN /\ call' = [op |-> "ASystemFont_getLocale", arg |-> f,
                       val |-> NullStr]
            /\ UNCHANGED proc
       ELSE \/ /\ proc' = "crashed"
               /\ call' = [op |-> "ASystemFont_getLocale", arg |-> f, val |-> NULL]
            \/ /\ call' = [op |-> "ASystemFont_getLocale", arg |-> f,
                           val |-> <<"garbage">>]
               /\ UNCHANGED proc
    /\ touched' = {}
    /\ UNCHANGED <<xml, clients, ite, docs, fonts, skipped, closed, frame, nulls>>

AxisIndexes == {0, 1}

\* ----------------------------------------------------------------- notions
\* The font nodes the iteration is about: the font children of the family
\* children of the root, read off the positions in the document.
FamilyFonts ==
    { n \in 1..Len(Nodes) :
        /\ Nodes[n].name = "font"
        /\ Nodes[n].depth = 2
        /\ \E f \in 1..(n - 1) :
              /\ Nodes[f].depth = 1
              /\ Nodes[f].name = "family"
              /\ \A j \in (f + 1)..n : Nodes[j].depth >= 2 }

\* The child of the root that node n (of depth 2) lies in.
FamilyOf(n) ==
    CHOOSE f \in 1..(n - 1) :
        Nodes[f].depth = 1 /\ \A j \in (f + 1)..n : Nodes[j].depth >= 2

\* The font node's file exists as a regular file.
HasRegularFile(n) == FontDir \o xmlTrim(Nodes[n].text) \in RegularFiles

\* The font node that follows n in document order, NULL when there is none.
FontAfter(n) ==
    IF \E m \in FamilyFonts : m > n
    THEN CHOOSE m \in FamilyFonts : m > n /\ \A k \in FamilyFonts : k > n => m <= k
    ELSE NULL

FirstFont == FontAfter(0)

\* What iterator i has returned so far, as nodes.
Yielded(i) == { fonts[i][k].node : k \in 1..Len(fonts[i]) }
YieldedInOrder(i) ==
    \A k \in 1..Len(fonts[i]), l \in 1..Len(fonts[i]) :
        k < l => fonts[i][k].node < fonts[i][l].node

\* The cursor of an open iterator.
Unstarted(i) == ite[i].mFontNode = NullNode /\ ite[i].mXmlDoc # NULL
AtNode(i) == ite[i].mFontNode # NullNode /\ ite[i].mXmlDoc # NULL
Exhausted(i) == ite[i].mFontNode = NullNode /\ ite[i].mXmlDoc = NULL

\* The last call was next on iterator i, it returned h, and no call runs.
NextReturned(i, h) ==
    /\ proc = "running"
    /\ frame.pc = "idle"
    /\ call.op = "ASystemFontIterator_next"
    /\ call.arg = i
    /\ call.val = h

\* next on iterator i is in a loop pass that repeats for ever.
Spinning(i) == frame.pc = "spin" /\ frame.ite = i

\* -------------------------------------------------------------------- C1
\* C1: for a document with an available font in a family, the calls of next
\* on a fresh iterator, up to the one that yields no more, return exactly the
\* font children of the families in document order, without those whose file
\* is absent, the first font node being returned whatever its file.
C1_YieldsEveryAvailableFont ==
    \A i \in Iters :
        /\ \E n \in FamilyFonts : HasRegularFile(n)
        /\ NextReturned(i, NullFont) \/ Spinning(i)
        => /\ Yielded(i) = { n \in FamilyFonts : n = FirstFont \/ HasRegularFile(n) }
           /\ YieldedInOrder(i)

\* -------------------------------------------------------------------- C2
\* C2: every call of next completes: none enters a loop pass that repeats
\* for ever.
C2_NextCompletes == \A i \in Iters : ~Spinning(i)

\* -------------------------------------------------------------------- C3
\* n is the last font child of its family.
LastFontOfFamily(n) ==
    /\ n \in FamilyFonts
    /\ ~\E m \in FamilyFonts : m > n /\ FamilyOf(m) = FamilyOf(n)

\* The search of next for the node after the cursor has ended: the loop of
\* lines 208-214 is left, or it repeats for ever.
SearchOver ==
    \/ frame.pc \in {"after", "spin"}
    \/ frame.pc = "loop" /\ frame.nextNode # NullNode

\* C3: from the last font of a family, next moves to the first font child of
\* the nearest following family that has one, whatever number of families
\* without a font child lie between, or finds the end when none remains.
C3_SkipsEmptyFamilies ==
    \A i \in Iters :
        /\ frame.ite = i
        /\ SearchOver
        /\ LastFontOfFamily(ite[i].mFontNode.n)
        => /\ frame.pc # "spin"
           /\ frame.nextNode.n = FontAfter(ite[i].mFontNode.n)

\* -------------------------------------------------------------------- C4
\* C4: once next has returned nullptr for an iterator, the iterator stays
\* exhausted with its document freed, every later next on it returns nullptr
\* again, in one step, and reads no document.
C4_ExhaustionIsTerminal ==
    \A i \in Iters :
        nulls[i] >= 1 /\ ite[i].st = "open"
        => /\ Exhausted(i)
           /\ frame.ite # i
           /\ \A d \in Iters : docs[d].st = "live" =>
                 \E j \in Iters \ {i} : ite[j].mXmlDoc = d
           /\ call.op = "ASystemFontIterator_next" /\ call.arg = i
                 => /\ call.val = NullFont
                    /\ nulls[i] >= 2 => touched = {}

\* next has returned nullptr again after records and the first nullptr.
C4_Witness ==
    /\ nulls[1] >= 2
    /\ Len(fonts[1]) >= 1
    /\ NextReturned(1, NullFont)

\* -------------------------------------------------------------------- C5
\* C5: the document open created is freed exactly once: it is live as long
\* as an open iterator holds it, it is freed when next exhausts the iterator
\* or else at close, and no document is freed twice or left live.
C5_DocumentFreedOnce ==
    /\ \A d \in Iters :
          /\ docs[d].frees <= 1
          /\ docs[d].st = "freed" <=> docs[d].frees = 1
          /\ docs[d].st = "live" <=>
                \E i \in Iters : ite[i].st = "open" /\ ite[i].mXmlDoc = d
    /\ \A i \in Iters :
          /\ nulls[i] >= 1 => ite[i].mXmlDoc = NULL
          /\ ite[i].st # "unopened" /\ xml.ok =>
                \E d \in Iters : docs[d].st # "none"

\* The iterator was exhausted, then closed, and its document freed once.
C5_Witness ==
    /\ ite[1].st = "closed"
    /\ nulls[1] >= 1
    /\ Len(fonts[1]) >= 1
    /\ docs[1].frees = 1

C7_FirstRecord ==
    \A i \in Iters :
        /\ Len(fonts[i]) >= 1 =>
              /\ fonts[i][1].node = FirstFont
              /\ fonts[i][1].font.mFilePath
                    = FontDir \o xmlTrim(Nodes[FirstFont].text)
        /\ NextReturned(i, <<i, 1>>) => ite[i].mFontNode.n = FirstFont
        /\ FamilyFonts # {} /\ xml.ok /\ nulls[i] >= 1 => Len(fonts[i]) >= 1

\* The first record comes from a font without a file, in a family that
\* follows a family without fonts.
C7_Witness ==
    /\ NextReturned(1, <<1, 1>>)
    /\ ~HasRegularFile(FirstFont)
    /\ \E f \in 2..(FirstFont - 1) :
          /\ Nodes[f].depth = 1
          /\ Nodes[f].name = "family"
          /\ f # FamilyOf(FirstFont)

\* -------------------------------------------------------------------- C8
\* C8: when the file does not parse, or the document has no root or no font
\* in a family, next returns nullptr, and the iterator is then exhausted and
\* holds no document.
C8_NothingToIterate ==
    \A i \in Iters :
        /\ ~xml.ok \/ FamilyFonts = {}
        /\ proc = "running"
        /\ call.op = "ASystemFontIterator_next"
        /\ call.arg = i
        => /\ call.val = NullFont
           /\ Exhausted(i)
           /\ \A d \in Iters : docs[d].st # "live"

\* next has returned nullptr for a file that does not parse.
C8_Witness == ~xml.ok /\ NextReturned(1, NullFont)

\* -------------------------------------------------------------------- C9
IteratorCalls == { "ASystemFontIterator_next", "ASystemFontIterator_close" }
CloseCalls == { "ASystemFontIterator_close", "ASystemFont_close" }
FontCalls ==
    FieldAccessors \cup AxisAccessors
    \cup { "ASystemFont_getLocale", "ASystemFont_close" }

\* The last call was passed nullptr as its handle.
NullHandleCall ==
    \/ call.op \in IteratorCalls /\ call.arg = NULL
    \/ call.op \in FontCalls /\ call.arg = NullFont

\* What a call can change, but for the record of the call itself.
objects == <<xml, clients, ite, docs, fonts, skipped, closed, frame, nulls, proc>>

\* C9 as stated: a call of any operation with a null handle, the two closes
\* included, aborts the process.
C9_NullHandleAborts == NullHandleCall => proc = "aborted"

\* C9, amended: next and every accessor of a record abort the process when
\* passed nullptr; close of a null iterator and close of a null record return
\* and change nothing.
C9_NullHandle ==
    /\ [](NullHandleCall /\ call.op \notin CloseCalls => proc = "aborted")
    /\ [](NullHandleCall /\ call.op \in CloseCalls => proc = "running")
    /\ [][/\ frame.pc = "idle" /\ frame'.pc = "idle"
          /\ NullHandleCall' /\ call'.op \in CloseCalls
          => UNCHANGED objects]_vars

\* close of a null record has returned, the process runs on, and the records
\* and the iterator are there as before.
C9_Witness ==
    /\ call.op = "ASystemFont_close"
    /\ call.arg = NullFont
    /\ proc = "running"
    /\ AtNode(1)
    /\ FontHandles # {NullFont}

\* ------------------------------------------------------------------- C10
\* The font node whose record follows that of n: the next one in document
\* order whose file exists as a regular file, NULL when there is none.
NextAvailable(n) ==
    IF \E m \in FamilyFonts : m > n /\ HasRegularFile(m)
    THEN CHOOSE m \in FamilyFonts :
             /\ m > n /\ HasRegularFile(m)
             /\ \A k \in FamilyFonts : k > n /\ HasRegularFile(k) => m <= k
    ELSE NULL

\* What iterator i has returned is what the document alone determines: the
\* records of the first font and of the available fonts after it, in order,
\* and nullptr only where no record is left.
AsWhenAlone(i) ==
    /\ \A k \in 1..Len(fonts[i]) :
          /\ fonts[i][k].node =
                IF k = 1 THEN FirstFont ELSE NextAvailable(fonts[i][k - 1].node)
          /\ fonts[i][k].font = copyFont(fonts[i][k].node, i)
    /\ nulls[i] >= 1 =>
          IF fonts[i] = <<>> THEN FirstFont = NULL
          ELSE NextAvailable(fonts[i][Len(fonts[i])].node) = NULL

\* Iterator i holds a document of its own, live, and its cursor is in it.
OwnDocument(i) ==
    /\ ite[i].mXmlDoc # NULL =>
          /\ docs[ite[i].mXmlDoc].st = "live"
          /\ \A j \in Iters \ {i} : ite[j].mXmlDoc # ite[i].mXmlDoc
    /\ ite[i].mFontNode # NullNode => ite[i].mFontNode.doc = ite[i].mXmlDoc
    /\ frame.pc # "idle" /\ frame.ite = i /\ frame.nextNode # NullNode =>
          frame.nextNode.doc = ite[i].mXmlDoc

\* The step is one of a call on iterator i.
CallOn(i) ==
    IF frame.pc # "idle" THEN frame.ite = i
    ELSE IF frame'.pc # "idle" THEN frame'.ite = i
    ELSE \/ call'.op \in IteratorCalls /\ call'.arg = i
         \/ call'.op = "ASystemFontIterator_open" /\ call'.val = i

\* The step leaves iterator i, its document and its results as they are.
Untouched(i) ==
    /\ UNCHANGED <<ite[i], fonts[i], skipped[i], nulls[i]>>
    /\ ite[i].mXmlDoc # NULL =>
          /\ docs'[ite[i].mXmlDoc] = docs[ite[i].mXmlDoc]
          /\ ite[i].mXmlDoc \notin touched'

\* C10: of two iterators over the same file, whose calls interleave, each
\* returns the records it returns when it runs alone, each has a document of
\* its own, and a call on one leaves the other, its cursor and its document
\* as they are.
C10_IteratorsIndependent ==
    /\ [](\A i \in Iters : AsWhenAlone(i) /\ OwnDocument(i))
    /\ [][\A i \in Iters : CallOn(i) => \A j \in Iters \ {i} : Untouched(j)]_vars

\* One iterator is exhausted and closed while the other, behind it, stands
\* on a font with its document live.
C10_Witness ==
    /\ ite[1].st = "closed"
    /\ nulls[1] >= 1
    /\ Len(fonts[1]) >= 2
    /\ AtNode(2)
    /\ Len(fonts[2]) = 1
    /\ docs[ite[2].mXmlDoc].st = "live"

\* ------------------------------------------------------------------- C11
\* What copyFont made of the node of record f when the record was returned.
Copied(f) == copyFont(fonts[f[1]][f[2]].node, f[1])

\* The last call read record f through an accessor and returned.
AccessorReturned(f) ==
    /\ proc = "running"
    /\ call.op \in FieldAccessors \cup AxisAccessors
    /\ call.arg = f

\* C11: a record stays as next returned it: no later call of next, the one
\* that frees the document included, and no close of the iterator changes a
\* field of it, and the accessors go on returning the values copied.
C11_RecordIsSnapshot ==
    /\ [][\A i \in Iters : \A k \in 1..Len(fonts[i]) :
             Len(fonts'[i]) >= k /\ fonts'[i][k] = fonts[i][k]]_vars
    /\ [](\A i \in Iters : \A k \in 1..Len(fonts[i]) :
             /\ fonts[i][k].font = Copied(<<i, k>>)
             /\ AccessorReturned(<<i, k>>) /\ call.op \in FieldAccessors
                   => call.val = FieldOf(call.op, Copied(<<i, k>>))
             /\ AccessorReturned(<<i, k>>) /\ call.op \in AxisAccessors
                   => \E x \in 1..Len(Copied(<<i, k>>).mAxes) :
                         call.val \in { Copied(<<i, k>>).mAxes[x][1],
                                        Copied(<<i, k>>).mAxes[x][2] })

\* The weight of the first record is read after next has freed the document
\* and the iterator is closed.
C11_Witness ==
    /\ AccessorReturned(<<1, 1>>)
    /\ call.op = "ASystemFont_getWeight"
    /\ nulls[1] >= 1
    /\ ite[1].st = "closed"
    /\ docs[1].st = "freed"

\* ------------------------------------------------------------------- C12
\* The records returned, as handles.
Records == UNION { { <<i, k>> : k \in 1..Len(fonts[i]) } : i \in Iters }
NodeOf(f) == fonts[f[1]][f[2]].node

\* s is a decimal numeral, and its value.
Numeral(s) == s # <<>> /\ \A k \in 1..Len(s) : IsDigit(s[k])
RECURSIVE DecimalValue(_)
DecimalValue(s) ==
    IF s = <<>> THEN 0
    ELSE DecimalValue(SubSeq(s, 1, Len(s) - 1)) * 10 + DigitOf(s[Len(s)])

\* C12: the weight of a record is the decimal value of the weight attribute
\* of its font node when that is a numeral, and 400 when the attribute is
\* absent or is no numeral.
C12_WeightOrDefault ==
    \A f \in Records :
        LET weight == xmlGetProp(NodeOf(f), "weight")
        IN  Font(f).mWeight =
               IF weight # NullStr /\ Numeral(weight) THEN DecimalValue(weight)
               ELSE 400

\* ------------------------------------------------------------------- C13
\* C13: the locale of a record is the lang attribute of the family element
\* its font node lies in, and the record has no locale when the family has
\* no such attribute.
C13_LocaleOfFamily ==
    \A f \in Records :
        /\ name(parent(NodeOf(f))) = FAMILY_TAG
        /\ Font(f).mLocale = xmlGetProp(parent(NodeOf(f)), "lang")

\* ------------------------------------------------------------------- C14
\* s is written as a number: digits, with at most one point among them.
NumberText(s) ==
    /\ s # NullStr
    /\ \E k \in 1..Len(s) : IsDigit(s[k])
    /\ \A k \in 1..Len(s) : IsDigit(s[k]) \/ s[k] = "."
    /\ Cardinality({ k \in 1..Len(s) : s[k] = "." }) <= 1

\* The element has a tag of 4 characters and a stylevalue that is a number.
WellFormedAxis(j) ==
    /\ xmlGetProp(j, "tag") # NullStr
    /\ Len(xmlGetProp(j, "tag")) = 4
    /\ NumberText(xmlGetProp(j, "stylevalue"))

\* The well-formed axis children of the node of depth d before j, from
\* position j on in document order.
RECURSIVE WellFormedAxes(_, _)
WellFormedAxes(j, d) ==
    IF j > Len(Nodes) \/ Nodes[j].depth <= d THEN <<>>
    ELSE (IF Nodes[j].depth = d + 1 /\ Nodes[j].name = "axis" /\ WellFormedAxis(j)
          THEN <<j>> ELSE <<>>) \o WellFormedAxes(j + 1, d)

\* C14: the axes of a record are, in document order, one entry for each
\* axis child of the font node with a tag of 4 characters and a stylevalue
\* that is a number; every other axis child has no entry.
C14_AxesOfWellFormedChildren ==
    \A f \in Records :
        LET axes == WellFormedAxes(NodeOf(f) + 1, Nodes[NodeOf(f)].depth)
        IN  /\ Len(Font(f).mAxes) = Len(axes)
            /\ \A k \in 1..Len(axes) :
                  Font(f).mAxes[k] = <<PackTag(xmlGetProp(axes[k], "tag")),
                                       strtod(xmlGetProp(axes[k], "stylevalue"))>>

\* ------------------------------------------------------------------- C15
\* The axis children copyFont accepts: a tag of 4 bytes and a stylevalue.
RECURSIVE AcceptedAxes(_, _)
AcceptedAxes(j, d) ==
    IF j > Len(Nodes) \/ Nodes[j].depth <= d THEN <<>>
    ELSE (IF /\ Nodes[j].depth = d + 1 /\ Nodes[j].name = "axis"
             /\ xmlGetProp(j, "tag") # NullStr /\ Len(xmlGetProp(j, "tag")) = 4
             /\ xmlGetProp(j, "stylevalue") # NullStr
          THEN <<j>> ELSE <<>>) \o AcceptedAxes(j + 1, d)

\* The four bytes of a uint32_t, the most significant first.
BigEndian(u) ==
    << u.hi \div (2 ^ 8), u.hi % (2 ^ 8), u.lo \div (2 ^ 8), u.lo % (2 ^ 8) >>

\* C15: the tag stored for an accepted axis is a 32-bit value whose bytes,
\* the most significant first, are the four bytes of the tag attribute, so
\* "wght" is stored as 0x77676874.
C15_TagIsBigEndian ==
    \A f \in Records :
        LET axes == AcceptedAxes(NodeOf(f) + 1, Nodes[NodeOf(f)].depth)
        IN  /\ Len(Font(f).mAxes) = Len(axes)
            /\ \A k \in 1..Len(axes) :
                  LET tag == Font(f).mAxes[k][1]
                      tagStr == xmlGetProp(axes[k], "tag")
                  IN  /\ tag.hi \in 0..(2 ^ 16 - 1)
                      /\ tag.lo \in 0..(2 ^ 16 - 1)
                      /\ BigEndian(tag) = [b \in 1..4 |-> Byte(tagStr[b])]
                      /\ tagStr = <<"w", "g", "h", "t">> =>
                            tag = [hi |-> 30567, lo |-> 26740]

\* A record with the axis wght and an axis whose tag starts with a byte
\* above 127.
C15_Witness ==
    \E f \in Records :
        /\ Len(Font(f).mAxes) = 2
        /\ Font(f).mAxes[1][1] = [hi |-> 30567, lo |-> 26740]
        /\ Font(f).mAxes[2][1].hi >= 2 ^ 15

\* ------------------------------------------------------------------- C16
\* t is s without the spaces, carriage returns, line feeds and tabs at its
\* two ends.
TrimmedOf(t, s) ==
    LET blank == {" ", "\r", "\n", "\t"}
    IN  /\ t # <<>> => t[1] \notin blank /\ t[Len(t)] \notin blank
        /\ \E lead \in 0..Len(s) :
              /\ lead + Len(t) <= Len(s)
              /\ t = SubSeq(s, lead + 1, lead + Len(t))
              /\ \A k \in 1..lead : s[k] \in blank
              /\ \A k \in (lead + Len(t) + 1)..Len(s) : s[k] \in blank

\* C16: the file path of a record is /system/fonts/ followed by the text of
\* the font node without the spaces, carriage returns, line feeds and tabs
\* at its ends; a text of such characters only, or no text, gives the prefix
\* alone.
C16_PathIsTrimmedText ==
    \A f \in Records :
        /\ Len(Font(f).mFilePath) >= 1
        /\ Font(f).mFilePath[1] = "/system/fonts/"
        /\ TrimmedOf(Tail(Font(f).mFilePath), Nodes[NodeOf(f)].text)

\* A record of a font whose text has white space at both ends and inside.
C16_Witness ==
    \E f \in Records :
        /\ Nodes[NodeOf(f)].text = <<"\t", "a", " ", "b", "\r">>
        /\ Font(f).mFilePath = <<"/system/fonts/", "a", " ", "b">>

\* ------------------------------------------------------------------- C17
\* C17: a record is italic exactly when its font node has a style attribute
\* whose value is "italic", letter for letter in lower case; it is not for
\* "Italic", for another value, or without the attribute.
C17_ItalicIsExactMatch ==
    \A f \in Records :
        LET style == xmlGetProp(NodeOf(f), "style")
        IN  /\ Font(f).mItalic \in BOOLEAN
            /\ Font(f).mItalic <=> style = <<"i", "t", "a", "l", "i", "c">>
            /\ style \in { NullStr, <<"I", "t", "a", "l", "i", "c">> } =>
                  ~Font(f).mItalic

\* A record of a font with style="Italic", which is not italic.
C17_Witness ==
    \E f \in Records :
        /\ xmlGetProp(NodeOf(f), "style") = <<"I", "t", "a", "l", "i", "c">>
        /\ ~Font(f).mItalic

\* ------------------------------------------------------------------- C18
\* C18: ASystemFont_getLocale on a record returns, without a fault: the
\* locale of the record when it has one, nullptr when it has none.
C18_LocaleIsReadable ==
    call.op = "ASystemFont_getLocale" =>
        \/ call.arg = NullFont
        \/ /\ proc = "running"
           /\ call.val = Font(call.arg).mLocale

\* ------------------------------------------------------------------- C19
\* C19: an open iterator is unstarted, at a node or exhausted, and never
\* anything else: a document it holds is live, and a cursor that is not null
\* goes with a held document and points to a font node of that document.
C19_ThreeConfigurations ==
    \A i \in Iters :
        ite[i].st = "open" =>
            /\ Cardinality({ c \in {"Unstarted", "AtNode", "Exhausted"} :
                               \/ c = "Unstarted" /\ Unstarted(i)
                               \/ c = "AtNode" /\ AtNode(i)
                               \/ c = "Exhausted" /\ Exhausted(i) }) = 1
            /\ ite[i].mXmlDoc # NULL => docs[ite[i].mXmlDoc].st = "live"
            /\ ite[i].mFontNode # NullNode =>
                  /\ ite[i].mFontNode.doc = ite[i].mXmlDoc
                  /\ ite[i].mFontNode.n \in FamilyFonts

\* The iterator has gone from a node to exhausted, its document freed.
C19_Witness ==
    /\ ite[1].st = "open"
    /\ Exhausted(1)
    /\ Len(fonts[1]) >= 2
    /\ skipped[1] # {}
    /\ docs[1].st = "freed"

\* ------------------------------------------------------------------- C20
\* C20: the iteration goes forward only.  When next returns a record the
\* cursor is on the node of that record, which lies after the node of every
\* record returned before and after every node passed over; no node is
\* returned twice or both returned and passed over; and the cursor never
\* moves to a node that is not after the one it leaves.
C20_ForwardOnly ==
    /\ [](\A i \in Iters :
             /\ YieldedInOrder(i)
             /\ Yielded(i) \cap skipped[i] = {}
             /\ \A k \in 1..Len(fonts[i]) :
                   NextReturned(i, <<i, k>>) =>
                      /\ k = Len(fonts[i])
                      /\ ite[i].mFontNode.n = fonts[i][k].node
                      /\ \A n \in skipped[i] : n < fonts[i][k].node)
    /\ [][\A i \in Iters :
             \/ ite'[i].mFontNode = ite[i].mFontNode
             \/ ite'[i].mFontNode = NullNode
             \/ ite'[i].mFontNode.n > ite[i].mFontNode.n]_vars

\* next has returned the second record, from beyond a node it passed over.
C20_Witness ==
    /\ NextReturned(1, <<1, 2>>)
    /\ \E n \in skipped[1] : fonts[1][1].node < n /\ n < fonts[1][2].node

\* The iterator's operations.
Next ==
    \/ \E i \in Iters : ASystemFontIterator_open(i)
    \/ \E h \in Iters \cup {NULL} : ASystemFontIterator_next(h)
    \/ WhileNextNodeNull
    \/ AfterLoop
    \/ \E h \in Iters \cup {NULL} : ASystemFontIterator_close(h)

\* The operations on the records.
FontNext ==
    \/ \E f \in FontHandles : ASystemFont_close(f)
    \/ \E op \in FieldAccessors, f \in FontHandles : ASystemFont_get(op, f)
    \/ \E op \in AxisAccessors, f \in FontHandles, x \in AxisIndexes :
          ASystemFont_getAxis(op, f, x)
    \/ \E f \in FontHandles : ASystemFont_getLocale(f)

ApiNext == Next \/ FontNext

\* One iterator, walked and closed.
Spec == Init /\ [][Next]_vars
\* Two iterators over the same file, their calls interleaved.
PairSpec == InitPair /\ [][Next]_vars
\* One iterator and the records it returns, with every operation of the API.
ApiSpec == InitApi /\ [][ApiNext]_vars
\* One iterator over a document of one font, whose record is read.
FieldSpec == InitField /\ [][ApiNext]_vars

====
